---- MODULE Spec2Model ----
(***************************************************************************)
(* Model of CliInterface (src/unnamed/part_010, declared in                *)
(* src/src/client/core/cli_interface.h): the supervisor of the external    *)
(* "netter" server process, built on one QProcess handle.                  *)
(*                                                                         *)
(* Every public operation runs on the GUI thread and blocks it; the        *)
(* QProcess signals raised inside a waitFor...() call are delivered        *)
(* synchronously inside that call.  An operation is therefore one action:  *)
(* it is computed by operators over a record of the machine state, in the  *)
(* order of the statements of the source, and what the environment does    *)
(* during its waits is drawn with \E.  Between operations the event loop   *)
(* delivers pending notifications and the child process writes or exits.   *)
(***************************************************************************)
EXTENDS Naturals, Sequences, FiniteSets

\* ------------------------------------------------------------------ bounds

\* Number of processes spawned in one behaviour.
MaxGen == 2
\* Chunks one process writes to its pipes.
MaxWrites == 2

\* ------------------------------------------------------------------- text

WS == {" ", "\n", "\t"}

\* The literal prefix of the pattern "server starting at ([^\\s]+)".
Marker ==
    << "s","e","r","v","e","r"," ","s","t","a","r","t","i","n","g"," ","a","t"," " >>

\* Chunks the child process writes.
ChunkText(c) ==
    CASE c = "ready1" -> Marker \o << "h","1","\n" >>
      [] c = "half1"  -> SubSeq(Marker, 1, 11)
      [] c = "half2"  -> SubSeq(Marker, 12, Len(Marker)) \o << "h","2","\n" >>
      [] c = "err"    -> << "e","r","r","\n" >>

StdoutChunks == {"ready1", "half1", "half2"}
StderrChunks == {"err"}

\* What readAll...() returns for the chunks waiting in a channel.
RECURSIVE Flatten(_)
Flatten(q) == IF q = << >> THEN << >> ELSE ChunkText(Head(q)) \o Flatten(Tail(q))

\* QRegularExpression("server starting at ([^\\s]+)").match(text)
MatchAt(t, i) ==
    /\ i + Len(Marker) <= Len(t)
    /\ SubSeq(t, i, i + Len(Marker) - 1) = Marker
    /\ t[i + Len(Marker)] \notin WS

hasMatch(t) == \E i \in 1..Len(t) : MatchAt(t, i)

captured1(t) ==
    LET i == CHOOSE k \in 1..Len(t) : MatchAt(t, k) /\ \A m \in 1..(k - 1) : ~MatchAt(t, m)
        j == i + Len(Marker)
        e == CHOOSE k \in j..Len(t) :
                 /\ \A m \in j..k : t[m] \notin WS
                 /\ (k = Len(t) \/ t[k + 1] \in WS)
    IN  SubSeq(t, j, e)

\* The part of a text after its last end of line.
AfterLastNewline(t) ==
    IF \E i \in 1..Len(t) : t[i] = "\n"
    THEN SubSeq(t, 1 + CHOOSE i \in 1..Len(t) :
                        t[i] = "\n" /\ \A j \in (i + 1)..Len(t) : t[j] # "\n",
                Len(t))
    ELSE t

\* ------------------------------------------------------------------ files

Names == {"a", "b"}
\* The paths callers pass: one relative, one absolute.
Paths == { [abs |-> FALSE, name |-> "a"], [abs |-> TRUE, name |-> "b"] }

\* QFileInfo(filePath).absoluteFilePath()
absoluteFilePath(p) == [abs |-> TRUE, name |-> p.name]

\* ------------------------------------------------------------------ state

VARIABLES
    m_serverRunning,   \* CliInterface::m_serverRunning
    m_serverHostPort,  \* CliInterface::m_serverHostPort
    pstate,            \* m_process->state()
    pgen,              \* the process m_process is attached to (0: none)
    pargs,             \* m_process->arguments().last()
    alive,             \* the child processes alive in the operating system
    exited,            \* how the attached process ended, not yet seen by QProcess
    sig,               \* the strongest signal sent to the attached process
    outPipe,           \* chunks waiting in its stdout pipe
    errPipe,           \* chunks waiting in its stderr pipe
    gen,               \* processes spawned so far
    nwrites,           \* chunks the attached process has written
    pendingLine,       \* stdout text read from it since the last end of line
    stopped,           \* serverStopped emissions since the last spawn
    ready,             \* serverStarted emissions since the last spawn
    files,             \* the files that exist
    call,              \* the last operation: its name, argument and result
    log                \* what the last operation did, in order

vars == << m_serverRunning, m_serverHostPort, pstate, pgen, pargs, alive,
           exited, sig, outPipe, errPipe, gen, nwrites, pendingLine, stopped, ready,
           files, call, log >>

NoPath == [abs |-> FALSE, name |-> "none"]

\* The machine state an operation starts from, with an empty log.
Cur ==
    [ m_serverRunning |-> m_serverRunning, m_serverHostPort |-> m_serverHostPort,
      pstate |-> pstate, pgen |-> pgen, pargs |-> pargs,
      pexit |-> [code |-> 0, status |-> "NormalExit"],
      alive |-> alive, exited |-> exited, sig |-> sig,
      outPipe |-> outPipe, errPipe |-> errPipe, gen |-> gen, nwrites |-> nwrites,
      pendingLine |-> pendingLine,
      stopped |-> stopped, ready |-> ready, files |-> files, log |-> << >> ]

Commit(s) ==
    /\ m_serverRunning' = s.m_serverRunning
    /\ m_serverHostPort' = s.m_serverHostPort
    /\ pstate' = s.pstate
    /\ pgen' = s.pgen
    /\ pargs' = s.pargs
    /\ alive' = s.alive
    /\ exited' = s.exited
    /\ sig' = s.sig
    /\ outPipe' = s.outPipe
    /\ errPipe' = s.errPipe
    /\ gen' = s.gen
    /\ nwrites' = s.nwrites
    /\ pendingLine' = s.pendingLine
    /\ stopped' = s.stopped
    /\ ready' = s.ready
    /\ files' = s.files
    /\ log' = s.log

\* The record of an operation: what was called and what it returned.
Call(op, ret, out) == [op |-> op, ret |-> ret, out |-> out]

\* ----------------------------------------------------------------- events

\* An operator that uses an intermediate state more than once takes it as a
\* parameter; the statements of one function of the source are then spread
\* over a few operators, named after the function.

Note(s, kind, what, arg) == [s EXCEPT !.log = Append(@, << kind, what, s.pgen, arg >>)]

Counted(t, signal) ==
    IF signal = "serverStopped" /\ t.pgen > 0 THEN [t EXCEPT !.stopped = @ + 1]
    ELSE IF signal = "serverStarted" /\ t.pgen > 0 THEN [t EXCEPT !.ready = @ + 1]
    ELSE t

\* emit <signal>(<arg>): the subscribers of MainWindow run synchronously.
Emit(s, signal, arg) == Counted(Note(s, "emit", signal, arg), signal)

Result(s, ok) == [s |-> s, ok |-> ok]

ClearRunning(s) == [s EXCEPT !.m_serverRunning = FALSE]

\* ------------------------------------------------------- the slots

\* handleProcessOutput, lines 201-206
handleProcessOutput_match(a, output) ==
    IF hasMatch(output)
    THEN Emit([a EXCEPT !.m_serverHostPort = captured1(output), !.m_serverRunning = TRUE],
              "serverStarted", captured1(output))
    ELSE a

\* handleProcessOutput reading stdout without forwarding it.
handleProcessOutput_stdout_NoForward(s, output) ==
    IF output # << >>
    THEN handleProcessOutput_match(
             [s EXCEPT !.pendingLine = AfterLastNewline(@ \o output)], output)
    ELSE s

\* handleProcessOutput, lines 195-207
handleProcessOutput_stdout(s, output) ==
    IF output # << >>
    THEN handleProcessOutput_match(
             Emit([s EXCEPT !.pendingLine = AfterLastNewline(@ \o output)],
                  "outputReceived", output),
             output)
    ELSE s

\* handleProcessOutput, lines 212-214
handleProcessOutput_escalate(b, errorOutput) ==
    IF ~b.m_serverRunning THEN Emit(b, "serverError", errorOutput) ELSE b

\* handleProcessOutput, lines 209-215
handleProcessOutput_stderr(s, errorOutput) ==
    IF errorOutput # << >>
    THEN handleProcessOutput_escalate(Emit(s, "outputReceived", errorOutput), errorOutput)
    ELSE s

handleProcessOutput(s, output, errorOutput) ==
    handleProcessOutput_stderr(handleProcessOutput_stdout(s, output), errorOutput)

handleProcessError(s, error) ==
    Emit(ClearRunning(Emit(s, "processError", error)), "serverStopped", << >>)

\* handleProcessFinished doing nothing.
handleProcessFinished_Ignore(s, exitCode, exitStatus) == s

\* handleProcessFinished without its m_serverRunning check.
handleProcessFinished_NoCheck(s, exitCode, exitStatus) ==
    Emit(ClearRunning(s), "serverStopped", << >>)

handleProcessFinished(s, exitCode, exitStatus) ==
    IF s.m_serverRunning
    THEN Emit(ClearRunning(s), "serverStopped", << >>)
    ELSE s

\* ------------------------------------------------------- QProcess

\* What a waitForFinished() can see the process do before it gives up.
WaitOutcomes == {"timeout", "normal0", "normal1", "crash"}
\* What QProcess::start() can lead to: the process runs, the executable is not
\* found, or the process is not confirmed within the start wait.
SpawnOutcomes == {"ok", "notfound", "slow"}

ExitCode(kind) == IF kind = "normal0" THEN 0 ELSE IF kind = "normal1" THEN 1 ELSE 9
ExitStatus(kind) == IF kind = "crash" THEN "CrashExit" ELSE "NormalExit"

\* QProcess::terminate(): asks the process to end; the handle does not change.
terminate(s) ==
    IF s.pstate = "NotRunning" THEN s
    ELSE Note([s EXCEPT !.sig = IF @ = "kill" THEN "kill" ELSE "term"],
              "signal", "terminate", << >>)

\* QProcess::kill(): forces the process to end; returns at once.
kill(s) ==
    IF s.pstate = "NotRunning" THEN s
    ELSE Note([s EXCEPT !.sig = "kill"], "signal", "kill", << >>)

\* readyReadStandardOutput / readyReadStandardError: the channel's bytes are
\* read into the handle and the slot connected to the signal runs; the text
\* read is the slot's local variable (output, errorOutput).
canReadStandardOutput(s) ==
    IF s.outPipe = << >> THEN s
    ELSE CHOOSE r \in { handleProcessOutput([s EXCEPT !.outPipe = << >>], output, << >>) :
                         output \in {Flatten(s.outPipe)} } : TRUE

canReadStandardError(s) ==
    IF s.errPipe = << >> THEN s
    ELSE CHOOSE r \in { handleProcessOutput([s EXCEPT !.errPipe = << >>], << >>, errorOutput) :
                         errorOutput \in {Flatten(s.errPipe)} } : TRUE

\* The late confirmation of a process that was not confirmed in the start wait.
startupNotification(s) ==
    IF s.pstate = "Starting" THEN [s EXCEPT !.pstate = "Running"] ELSE s

\* The handle lets go of its process and keeps how it ended.
processDied_cleanup(b, kind) ==
    Note([b EXCEPT !.pstate = "NotRunning", !.exited = "none", !.sig = "none",
                   !.pexit = [code |-> ExitCode(kind), status |-> ExitStatus(kind)]],
         "exit", kind, << >>)

\* The end of the process reaching no slot.
processDied_notify_NoSlots(a, kind) == processDied_cleanup(a, kind)

\* errorOccurred(Crashed) for an abnormal end, then NotRunning, then
\* finished(exitCode, exitStatus).
processDied_notify(a, kind) ==
    handleProcessFinished(
        processDied_cleanup(IF kind = "crash" THEN handleProcessError(a, "Crashed") ELSE a,
                            kind),
        ExitCode(kind), ExitStatus(kind))

\* QProcess notices that its process has ended: it drains both channels and
\* notifies.  The state after each step (a, b, c) is a bound value, so that
\* ENABLED of the delivery is evaluated once per step.
processDied(s) ==
    CHOOSE r \in { processDied_notify(c, s.exited) :
                     c \in { canReadStandardError(b) :
                               b \in { canReadStandardOutput(a) :
                                         a \in {startupNotification(s)} } } } : TRUE

\* What the process does while the caller is blocked in a wait: a process that
\* was sent kill() ends, any other ends as w says or keeps running.
DuringWait(s, w) ==
    IF s.pgen \notin s.alive THEN s
    ELSE IF s.sig = "kill"
         THEN [s EXCEPT !.alive = @ \ {s.pgen}, !.exited = "crash"]
         ELSE IF w = "timeout" THEN s
              ELSE [s EXCEPT !.alive = @ \ {s.pgen}, !.exited = w]

\* The notifications that arrive during the wait are handled inside the call.
waitForFinished_poll(a) ==
    IF a.exited # "none"
    THEN Result(processDied(a), TRUE)
    ELSE Result(canReadStandardError(canReadStandardOutput(a)), FALSE)

\* QProcess::waitForFinished(msecs): false at once without a process;
\* otherwise true when the process has ended, false on the timeout.
waitForFinished(s, w) ==
    IF s.pstate = "NotRunning" THEN Result(s, FALSE)
    ELSE waitForFinished_poll(DuringWait(startupNotification(s), w))

\* The process is created, or errorOccurred(FailedToStart) is raised.
start_process(a, path, sp) ==
    IF sp = "notfound"
    THEN handleProcessError([a EXCEPT !.pgen = 0], "FailedToStart")
    ELSE Note([a EXCEPT !.gen = @ + 1, !.pgen = a.gen + 1,
                        !.alive = @ \cup {a.gen + 1}, !.pstate = "Starting"],
              "spawn", "netter", path)

\* QProcess::start(program, arguments): refused while the handle has a
\* process; otherwise the arguments are stored and the process is created.
start(s, path, sp) ==
    IF s.pstate # "NotRunning" THEN Note(s, "warning", "already running", << >>)
    ELSE start_process([s EXCEPT !.pargs = path, !.outPipe = << >>, !.errPipe = << >>,
                                 !.nwrites = 0, !.pendingLine = << >>,
                                 !.exited = "none", !.sig = "none",
                                 !.stopped = 0, !.ready = 0],
                       path, sp)

\* QProcess::waitForStarted(msecs)
waitForStarted(s, sp) ==
    IF s.pstate = "Starting"
    THEN IF sp = "slow" THEN Result(s, FALSE)
         ELSE Result([s EXCEPT !.pstate = "Running"], TRUE)
    ELSE Result(s, s.pstate = "Running")

\* ------------------------------------------------------- CliInterface

\* The cleanup letting go of a process that survived terminate() instead of
\* killing it.
cleanupHandle_kill_Detach(a) ==
    [a EXCEPT !.pstate = "NotRunning", !.exited = "none", !.sig = "none"]

\* startServer, lines 52-55
cleanupHandle_kill(a) ==
    IF a.pstate # "NotRunning"
    THEN waitForFinished(kill(a), "timeout").s
    ELSE a

\* cleanupHandle as it would be if the handle were replaced by a new QProcess
\* instead of being cleaned up: the old process is left as it is.
cleanupHandle_NewHandle(s, w) ==
    [s EXCEPT !.pstate = "NotRunning", !.exited = "none", !.sig = "none"]

\* The block shared by startServer and parsePath: a process still held by the
\* handle is terminated, waited for 3 s, and killed and waited for.
cleanupHandle(s, w) ==
    IF s.pstate # "NotRunning"
    THEN cleanupHandle_kill(waitForFinished(terminate(s), w).s)
    ELSE s

\* startServer, lines 69-77
startServer_started(d) ==
    IF ~d.ok
    THEN Result(Emit(d.s, "processError", "Failed to start Netter server"), FALSE)
    ELSE Result(d.s, TRUE)

\* startServer, lines 58-77
startServer_launch(a, absolute, sp) ==
    startServer_started(
        waitForStarted(start(Emit(a, "processStarted", absolute), absolute, sp), sp))

\* startServer without its check that the file exists.
startServerChecked_NoFileCheck(s, filePath, w1, sp) ==
    startServer_launch(cleanupHandle(s, w1), absoluteFilePath(filePath), sp)

\* startServer past its m_serverRunning check, lines 42-77
startServerChecked(s, filePath, w1, sp) ==
    IF filePath.name \notin s.files
    THEN Result(Emit(s, "processError", "Input file does not exist"), FALSE)
    ELSE startServer_launch(cleanupHandle(s, w1), absoluteFilePath(filePath), sp)

\* startServer without its m_serverRunning check.
startServer_NoCheck(s, filePath, w1, sp) == startServerChecked(s, filePath, w1, sp)

startServer(s, filePath, w1, sp) ==
    IF s.m_serverRunning THEN Result(s, FALSE)
    ELSE startServerChecked(s, filePath, w1, sp)

\* stopServer, lines 106-109
stopServer_kill(t) == IF ~t.ok THEN kill(t.s) ELSE t.s

\* stopServer, lines 102-110
stopServer_process(s, w) ==
    IF s.pstate # "NotRunning"
    THEN stopServer_kill(waitForFinished(terminate(s), w))
    ELSE s

\* stopServer without its m_serverRunning check.
stopServer_NoCheck(s, w) ==
    Result(Emit(ClearRunning(stopServer_process(s, w)), "serverStopped", << >>), TRUE)

stopServer(s, w) ==
    IF ~s.m_serverRunning THEN Result(s, TRUE)
    ELSE Result(Emit(ClearRunning(stopServer_process(s, w)), "serverStopped", << >>), TRUE)

\* restartServer without its m_serverRunning check.
restartServer_NoCheck(s, w0, w1, sp) ==
    startServer(Note(stopServer(s, w0).s, "sleep", "msleep", << >>), s.pargs, w1, sp)

\* restartServer starting the new server without stopping the old one.
restartServer_NoStop(s, w0, w1, sp) ==
    IF ~s.m_serverRunning THEN Result(s, FALSE)
    ELSE startServerChecked(Note(s, "sleep", "msleep", << >>), s.pargs, w1, sp)

restartServer(s, w0, w1, sp) ==
    IF ~s.m_serverRunning THEN Result(s, FALSE)
    ELSE startServer(Note(stopServer(s, w0).s, "sleep", "msleep", << >>), s.pargs, w1, sp)

isServerRunning == m_serverRunning

\* What the one-shot process writes while parsePath waits for it.
WriteBursts ==
    { [out |-> << >>, err |-> << >>],
      [out |-> << "half1" >>, err |-> << >>],
      [out |-> << "ready1" >>, err |-> << "err" >>] }

writes(s, wr) ==
    IF s.pgen \in s.alive /\ s.pstate = "Running"
    THEN [s EXCEPT !.outPipe = @ \o wr.out, !.errPipe = @ \o wr.err,
                   !.nwrites = @ + Len(wr.out) + Len(wr.err)]
    ELSE s

ParseResult(s, ok, out) == [s |-> s, ok |-> ok, out |-> out]

\* parsePath, lines 170-187
parsePath_result(g) ==
    IF g.pexit.code # 0
    THEN ParseResult(Emit([g EXCEPT !.outPipe = << >>, !.errPipe = << >>],
                          "processError", "Failed to parse file"), FALSE, << >>)
    ELSE ParseResult([g EXCEPT !.outPipe = << >>, !.errPipe = << >>], TRUE,
                     Flatten(g.outPipe))

\* parsePath, lines 161-187
parsePath_finished(f) ==
    IF ~f.ok
    THEN ParseResult(Emit(terminate(f.s), "processError", "Netter CLI process timed out"),
                     FALSE, << >>)
    ELSE parsePath_result(f.s)

\* parsePath, lines 151-187
parsePath_started(d, wr, w2) ==
    IF ~d.ok
    THEN ParseResult(Emit(d.s, "processError", "Failed to start Netter CLI"), FALSE, << >>)
    ELSE parsePath_finished(waitForFinished(writes(d.s, wr), w2))

\* parsePath, lines 140-187
parsePath_launch(a, absolute, sp, wr, w2) ==
    parsePath_started(
        waitForStarted(start(Emit(a, "processStarted", absolute), absolute, sp), sp),
        wr, w2)

parsePath(s, filePath, w1, sp, wr, w2) ==
    IF filePath.name \notin s.files
    THEN ParseResult(Emit(s, "processError", "Input file does not exist"), FALSE, << >>)
    ELSE parsePath_launch(cleanupHandle(s, w1), absoluteFilePath(filePath), sp, wr, w2)

\* ------------------------------------------------------- teardown

\* delete m_process without QProcess ending its process.
QProcess_destructor_Detach(s) ==
    [s EXCEPT !.pstate = "NotRunning", !.exited = "none", !.sig = "none",
              !.outPipe = << >>, !.errPipe = << >>]

\* delete m_process: QProcess::~QProcess kills a process it still holds and
\* waits for its end.
QProcess_destructor(s) ==
    IF s.pstate # "NotRunning"
    THEN waitForFinished(kill(Note(s, "warning", "destroyed while running", << >>)),
                         "timeout").s
    ELSE s

\* CliInterface::~CliInterface, lines 27-30
destructor_stop(s, w1, w2) ==
    IF s.pstate # "NotRunning"
    THEN waitForFinished(stopServer(s, w1).s, w2).s
    ELSE s

\* CliInterface::~CliInterface
destructor(s, w1, w2) == QProcess_destructor(destructor_stop(s, w1, w2))

\* MainWindow::~MainWindow, lines 139-141
MainWindow_destructor(s, w0) ==
    IF s.m_serverRunning THEN stopServer(s, w0).s ELSE s

\* ------------------------------------------------- isNetterAvailable

\* QProcess checkProcess: a handle local to isNetterAvailable, with no slot
\* connected to it.
checkProcess_start(sp) ==
    [pstate |-> IF sp = "notfound" THEN "NotRunning" ELSE "Starting",
     live |-> sp # "notfound", code |-> 0]

checkProcess_waitForStarted(p, sp) ==
    IF p.pstate = "Starting" /\ sp = "ok"
    THEN Result([p EXCEPT !.pstate = "Running"], TRUE)
    ELSE Result(p, FALSE)

checkProcess_waitForFinished(p, w) ==
    IF w = "timeout" THEN Result(p, FALSE)
    ELSE Result([p EXCEPT !.pstate = "NotRunning", !.live = FALSE, !.code = ExitCode(w)],
                TRUE)

\* isNetterAvailable returning true for every process that finished in time.
isNetterAvailable_finished_AnyExit(f) == f.ok

\* isNetterAvailable, lines 278-293
isNetterAvailable_finished(f) == IF ~f.ok THEN FALSE ELSE f.s.code = 0

\* isNetterAvailable, lines 272-293
isNetterAvailable_started(d, w) ==
    IF ~d.ok THEN FALSE
    ELSE isNetterAvailable_finished(checkProcess_waitForFinished(d.s, w))

isNetterAvailable(sp, w) ==
    isNetterAvailable_started(checkProcess_waitForStarted(checkProcess_start(sp), sp), w)

\* ------------------------------------------------------------ actions

\* A wait outcome is drawn only where a wait can meet a process that may still
\* choose how to end; a spawn outcome only where a process is spawned.
WaitChoices(s) ==
    IF s.pstate # "NotRunning" /\ s.pgen \in s.alive /\ s.sig # "kill"
    THEN WaitOutcomes ELSE {"timeout"}

SpawnChoices(spawns) ==
    IF spawns THEN {sp \in SpawnOutcomes : sp = "notfound" \/ gen < MaxGen}
    ELSE {"notfound"}

\* An operation returns: its effects and its result become visible.
Return(op, r) == Commit(r.s) /\ call' = Call(op, r.ok, << >>)
ReturnText(op, r) == Commit(r.s) /\ call' = Call(op, r.ok, r.out)

StartServer ==
    \E filePath \in Paths :
    \E w1 \in IF ~m_serverRunning /\ filePath.name \in files
              THEN WaitChoices(Cur) ELSE {"timeout"} :
    \E sp \in SpawnChoices(~m_serverRunning /\ filePath.name \in files) :
        Return("startServer", startServer(Cur, filePath, w1, sp))

StopServer ==
    \E w \in IF m_serverRunning THEN WaitChoices(Cur) ELSE {"timeout"} :
        Return("stopServer", stopServer(Cur, w))

RestartServer ==
    \E w0 \in IF m_serverRunning THEN WaitChoices(Cur) ELSE {"timeout"} :
    \E sp \in SpawnChoices(m_serverRunning /\ pargs.name \in files) :
        Return("restartServer", restartServer(Cur, w0, "timeout", sp))

ParsePath ==
    \E filePath \in Paths :
    \E w1 \in IF filePath.name \in files THEN WaitChoices(Cur) ELSE {"timeout"} :
    \E sp \in SpawnChoices(filePath.name \in files) :
    \E wr \in IF sp = "ok" THEN WriteBursts ELSE {[out |-> << >>, err |-> << >>]} :
    \E w2 \in IF sp = "ok" THEN WaitOutcomes ELSE {"timeout"} :
        ReturnText("parsePath", parsePath(Cur, filePath, w1, sp, wr, w2))

\* The probe of the tool; sp and w are what its process does.
IsNetterAvailable ==
    \E sp \in SpawnOutcomes :
    \E w \in IF sp = "ok" THEN WaitOutcomes ELSE {"timeout"} :
        /\ call' = Call("isNetterAvailable", isNetterAvailable(sp, w), << sp, w >>)
        /\ log' = << >>
        /\ UNCHANGED << m_serverRunning, m_serverHostPort, pstate, pgen, pargs,
                        alive, exited, sig, outPipe, errPipe, gen, nwrites, pendingLine,
                        stopped, ready, files >>

\* The application exits: MainWindow::~MainWindow runs, then the CliInterface,
\* a child object of the window, is destroyed.
Teardown ==
    \E w0 \in IF m_serverRunning THEN WaitChoices(Cur) ELSE {"timeout"} :
    \E w2 \in WaitChoices(Cur) :
        /\ Commit(destructor(MainWindow_destructor(Cur, w0), "timeout", w2))
        /\ call' = Call("~CliInterface", FALSE, << >>)

\* The event loop delivers readyReadStandardOutput.
DeliverStdout ==
    /\ pstate = "Running"
    /\ outPipe # << >>
    /\ Commit(canReadStandardOutput(Cur))
    /\ call' = Call("readyReadStandardOutput", FALSE, << >>)

\* The event loop delivers readyReadStandardError.
DeliverStderr ==
    /\ pstate = "Running"
    /\ errPipe # << >>
    /\ Commit(canReadStandardError(Cur))
    /\ call' = Call("readyReadStandardError", FALSE, << >>)

\* The event loop delivers the late confirmation of a started process.
DeliverStarted ==
    /\ pstate = "Starting"
    /\ Commit(startupNotification(Cur))
    /\ call' = Call("started", FALSE, << >>)

\* The event loop delivers the end of the process.
DeliverDied ==
    /\ pstate # "NotRunning"
    /\ exited # "none"
    /\ \E t \in {processDied(Cur)} : Commit(t)
    /\ call' = Call("processDied", FALSE, << >>)

\* The child process writes a chunk to one of its pipes.
ProcWrite ==
    /\ pstate = "Running"
    /\ pgen \in alive
    /\ nwrites < MaxWrites
    /\ \/ \E c \in StdoutChunks : outPipe' = Append(outPipe, c) /\ errPipe' = errPipe
       \/ \E c \in StderrChunks : errPipe' = Append(errPipe, c) /\ outPipe' = outPipe
    /\ nwrites' = nwrites + 1
    /\ call' = Call("write", FALSE, << >>)
    /\ log' = << >>
    /\ UNCHANGED << m_serverRunning, m_serverHostPort, pstate, pgen, pargs,
                    alive, exited, sig, gen, pendingLine, stopped, ready, files >>

\* The child process ends: by itself, or because of the signal it was sent.
ProcExit ==
    /\ pstate # "NotRunning"
    /\ pgen \in alive
    /\ \E kind \in IF sig = "kill" THEN {"crash"} ELSE {"normal0", "normal1", "crash"} :
           exited' = kind
    /\ alive' = alive \ {pgen}
    /\ call' = Call("exit", FALSE, << >>)
    /\ log' = << >>
    /\ UNCHANGED << m_serverRunning, m_serverHostPort, pstate, pgen, pargs,
                    sig, outPipe, errPipe, gen, nwrites, pendingLine, stopped, ready,
                    files >>

\* A route file is created or removed.
ToggleFile ==
    /\ \E n \in Names : files' = IF n \in files THEN files \ {n} ELSE files \cup {n}
    /\ call' = Call("file", FALSE, << >>)
    /\ log' = << >>
    /\ UNCHANGED << m_serverRunning, m_serverHostPort, pstate, pgen, pargs,
                    alive, exited, sig, outPipe, errPipe, gen, nwrites, pendingLine,
                    stopped, ready >>

\* The state after CliInterface::CliInterface.
Init ==
    /\ m_serverRunning = FALSE
    /\ m_serverHostPort = << >>
    /\ pstate = "NotRunning"
    /\ pgen = 0
    /\ pargs = NoPath
    /\ alive = {}
    /\ exited = "none"
    /\ sig = "none"
    /\ outPipe = << >>
    /\ errPipe = << >>
    /\ gen = 0
    /\ nwrites = 0
    /\ pendingLine = << >>
    /\ stopped = 0
    /\ ready = 0
    /\ files = Names
    /\ call = Call("init", FALSE, << >>)
    /\ log = << >>

Next ==
    \/ StartServer
    \/ StopServer
    \/ RestartServer
    \/ DeliverStdout
    \/ DeliverStderr
    \/ DeliverStarted
    \/ DeliverDied
    \/ ProcWrite
    \/ ProcExit
    \/ ToggleFile

\* The lifecycle operations, the event loop and the environment.
Spec == Init /\ [][Next]_vars

\* The lifecycle operations with the route files in place.  The event loop
\* does deliver the end of a process: the notification stays pending until it
\* is delivered or an operation handles it in a wait.
NextFair ==
    \/ StartServer
    \/ StopServer
    \/ RestartServer
    \/ DeliverStdout
    \/ DeliverStderr
    \/ DeliverStarted
    \/ DeliverDied
    \/ ProcWrite
    \/ ProcExit

SpecFair == Init /\ [][NextFair]_vars /\ WF_vars(DeliverDied)

\* The same with the synchronous runner and the probe.
NextRun == Next \/ ParsePath \/ IsNetterAvailable

SpecRun == Init /\ [][NextRun]_vars

\* The synchronous runner and the probe beside a server that is started and
\* stopped, with the route files in place.
NextTools ==
    \/ StartServer
    \/ StopServer
    \/ ParsePath
    \/ IsNetterAvailable
    \/ DeliverStdout
    \/ DeliverStderr
    \/ DeliverStarted
    \/ DeliverDied
    \/ ProcWrite
    \/ ProcExit

SpecTools == Init /\ [][NextTools]_vars

\* The life of the supervisor up to its destruction; nothing is called on a
\* destroyed object.
Destroyed == call.op = "~CliInterface"

NextLife ==
    \/ ~Destroyed /\ StartServer
    \/ ~Destroyed /\ StopServer
    \/ ~Destroyed /\ RestartServer
    \/ ~Destroyed /\ DeliverStdout
    \/ ~Destroyed /\ DeliverStderr
    \/ ~Destroyed /\ DeliverStarted
    \/ ~Destroyed /\ DeliverDied
    \/ ~Destroyed /\ ProcWrite
    \/ ~Destroyed /\ ProcExit
    \/ ~Destroyed /\ Teardown

SpecLife == Init /\ [][NextLife]_vars

\* The probe beside a server that is started and stopped.
NextProbe ==
    \/ StartServer
    \/ StopServer
    \/ IsNetterAvailable
    \/ DeliverStdout
    \/ DeliverStderr
    \/ DeliverStarted
    \/ DeliverDied
    \/ ProcWrite
    \/ ProcExit

SpecProbe == Init /\ [][NextProbe]_vars

\* ------------------------------------------------------------ properties

\* Reading the log of the last operation.
IsEmit(e, signal) == e[1] = "emit" /\ e[2] = signal
EmitCount(l, signal) == Cardinality({i \in 1..Len(l) : IsEmit(l[i], signal)})
Has(l, kind, what) == \E i \in 1..Len(l) : l[i][1] = kind /\ l[i][2] = what
HasKind(l, kind) == \E i \in 1..Len(l) : l[i][1] = kind
Before(l, k1, w1, k2, w2) ==
    \A j \in 1..Len(l) : (l[j][1] = k2 /\ l[j][2] = w2) =>
        \E i \in 1..(j - 1) : l[i][1] = k1 /\ l[i][2] = w1

\* Everything of the supervisor and its process; the log and the call record
\* are the observation of the step.
machine == << m_serverRunning, m_serverHostPort, pstate, pgen, pargs, alive, exited,
              sig, outPipe, errPipe, gen, nwrites, pendingLine, stopped, ready, files >>

\* The lifecycle states of the specification, read from the variables of the
\* code: Running is readiness seen; Starting is a process that start()
\* confirmed, that is alive, was never signalled and whose readiness marker was
\* not read; Idle is no process.
IsRunning == m_serverRunning
IsStarting ==
    /\ ~m_serverRunning
    /\ pstate = "Running"
    /\ pgen \in alive
    /\ sig = "none"
    /\ ready = 0
IsIdle == ~m_serverRunning /\ pstate = "NotRunning" /\ alive = {}

\* C1: at most one child process of the supervisor is alive at any instant, so
\* start() never spawns while an earlier process is still alive.
C1_AtMostOneProcessAlive == Cardinality(alive) <= 1

\* C1 witness: startServer met a live process in the handle, cleaned it up and
\* spawned the next one.
C1_Witness ==
    /\ call.op = "startServer"
    /\ Has(log, "signal", "terminate")
    /\ HasKind(log, "spawn")
    /\ alive = {pgen}
    /\ pgen = 2

\* C2 (as claimed): an explicit stop() of a Running server emits ServerStopped
\* exactly once, counting the notifications delivered while stop() waits.
C2_StopEmitsServerStoppedOnce ==
    (call.op = "stopServer" /\ log # << >>) => EmitCount(log, "serverStopped") = 1

\* C3: when the process ends by itself while the server is Running, the
\* notification of its end leaves the supervisor Idle (isRunning() false, no
\* process) and emits exactly one ServerStopped.
C3_OwnExitStopsOnce ==
    [][ (call'.op = "processDied" /\ m_serverRunning)
        => /\ ~m_serverRunning'
           /\ pstate' = "NotRunning"
           /\ pgen' \notin alive'
           /\ EmitCount(log', "serverStopped") = 1 ]_vars

\* C3 witness: a Running server whose process ended by itself, normally, with
\* the one ServerStopped of the finished() slot.
C3_Witness ==
    /\ call.op = "processDied"
    /\ Has(log, "exit", "normal0")
    /\ ~Has(log, "emit", "serverStarted")
    /\ EmitCount(log, "serverStopped") = 1
    /\ ready = 1
    /\ ~m_serverRunning

\* C4: start() while Running returns false, spawns nothing, signals nothing,
\* emits nothing and changes neither the lifecycle state nor the endpoint.
C4_StartWhileRunningIsRefused ==
    [][ (call'.op = "startServer" /\ m_serverRunning)
        => /\ call'.ret = FALSE
           /\ log' = << >>
           /\ UNCHANGED machine ]_vars

\* C4 witness: a refused start() with the server still running.
C4_Witness ==
    /\ call.op = "startServer"
    /\ call.ret = FALSE
    /\ log = << >>
    /\ m_serverRunning
    /\ pgen \in alive

\* C5 (as claimed): start() while Starting returns false, signals nothing,
\* spawns nothing and emits no ProcessLaunched.
C5_StartWhileStartingIsRefused ==
    [][ (call'.op = "startServer" /\ IsStarting)
        => /\ call'.ret = FALSE
           /\ ~HasKind(log', "signal")
           /\ ~HasKind(log', "spawn")
           /\ ~Has(log', "emit", "processStarted")
           /\ alive' = alive ]_vars

\* C6: stop() while Idle returns true, emits nothing, signals nothing and
\* changes nothing.
C6_StopWhileIdleIsNoOp ==
    [][ (call'.op = "stopServer" /\ IsIdle)
        => /\ call'.ret = TRUE
           /\ log' = << >>
           /\ UNCHANGED machine ]_vars

\* C6 witness: a stop() that returned true on an idle supervisor after a
\* server had run and ended.
C6_Witness ==
    /\ call.op = "stopServer"
    /\ call.ret = TRUE
    /\ log = << >>
    /\ IsIdle
    /\ gen > 0

\* C7 (as claimed): a stop() that had to force-kill returns true only once the
\* process has ended.
C7_StopReturnsAfterKilledProcessEnded ==
    (call.op = "stopServer" /\ Has(log, "signal", "kill"))
        => (call.ret = TRUE /\ pgen \notin alive)

\* C8 (as claimed): stop() while Starting terminates the process: after it the
\* process is not alive and the supervisor is Idle.
C8_StopWhileStartingCancels ==
    [][ (call'.op = "stopServer" /\ IsStarting)
        => /\ call'.ret = TRUE
           /\ pgen \notin alive'
           /\ ~m_serverRunning' ]_vars

\* C9: restart() in a state other than Running returns false, spawns nothing,
\* signals nothing and emits nothing.
C9_RestartWhileNotRunningIsRefused ==
    [][ (call'.op = "restartServer" /\ ~m_serverRunning)
        => /\ call'.ret = FALSE
           /\ log' = << >>
           /\ UNCHANGED machine ]_vars

\* C9 witness: a refused restart() while a started process has not reported
\* readiness.
C9_Witness ==
    /\ call.op = "restartServer"
    /\ call.ret = FALSE
    /\ log = << >>
    /\ IsStarting

\* C10: restart() while Running stops the current process, sleeps, and starts
\* again with the path of the running server: ServerStopped comes before the
\* delay, the delay before ProcessLaunched and the spawn; the old process has
\* ended before the spawn; the spawn carries the same path; and restart()
\* returns what that start() returned.
C10_RestartStopsThenStarts ==
    [][ (call'.op = "restartServer" /\ m_serverRunning)
        => /\ Has(log', "emit", "serverStopped")
           /\ Has(log', "sleep", "msleep")
           /\ Before(log', "emit", "serverStopped", "sleep", "msleep")
           /\ Before(log', "sleep", "msleep", "emit", "processStarted")
           /\ Before(log', "emit", "processStarted", "spawn", "netter")
           /\ \A j \in 1..Len(log') : log'[j][1] = "spawn" =>
                  /\ log'[j][4] = pargs
                  /\ \E i \in 1..(j - 1) : log'[i][1] = "exit" /\ log'[i][3] = pgen
                  /\ alive' = {pgen'}
                  /\ pgen' # pgen
           /\ pargs.name \in files => Has(log', "emit", "processStarted")
           /\ call'.ret = (HasKind(log', "spawn") /\ pstate' = "Running") ]_vars

\* C10 witness: a restart() that returned true with a new process running.
C10_Witness ==
    /\ call.op = "restartServer"
    /\ call.ret = TRUE
    /\ Has(log, "emit", "serverStopped")
    /\ HasKind(log, "spawn")
    /\ pgen = 2
    /\ pstate = "Running"

\* C11 (as claimed): a readiness marker whose text arrives split over two
\* stdout deliveries while the server is Starting is detected on the
\* reassembled line: the delivery that completes it emits one ServerReady with
\* the endpoint of the line and makes the server Running.
C11_SplitMarkerIsDetected ==
    [][ ( /\ call'.op = "readyReadStandardOutput"
          /\ IsStarting
          /\ pendingLine # << >>
          /\ ~hasMatch(Flatten(outPipe))
          /\ hasMatch(pendingLine \o Flatten(outPipe)) )
        => /\ EmitCount(log', "serverStarted") = 1
           /\ m_serverRunning'
           /\ m_serverHostPort' = captured1(pendingLine \o Flatten(outPipe)) ]_vars

\* C12 (as claimed): once ServerReady was emitted for the attached process,
\* later stdout of that process is forwarded as OutputChunk only: no further
\* ServerReady, and the state and the endpoint stay as they are.
C12_ServerReadyOncePerGeneration ==
    [][ (call'.op = "readyReadStandardOutput" /\ ready >= 1)
        => /\ Has(log', "emit", "outputReceived")
           /\ ~Has(log', "emit", "serverStarted")
           /\ UNCHANGED << m_serverRunning, m_serverHostPort >> ]_vars

\* C13 (as claimed): stderr read from the attached process is forwarded as an
\* OutputChunk with its text, and it is escalated to ServerError exactly when
\* no ServerReady has been emitted for that process so far; stderr read after
\* its readiness is never escalated, whatever happened to the server since.
C13_StderrEscalatedOnlyBeforeReady ==
    [][ (pgen' = pgen /\ errPipe # << >> /\ errPipe' = << >>)
        => /\ \E i \in 1..Len(log') :
                  log'[i] = << "emit", "outputReceived", pgen, Flatten(errPipe) >>
           /\ Has(log', "emit", "serverError") <=> (ready' = 0) ]_vars

\* C14 (as claimed): a start() that launched the command and whose process is
\* not confirmed within the start wait returns false with a ProcessError, and
\* leaves the supervisor Idle: isRunning() false, no process held by the
\* handle, no child process alive.
C14_FailedStartLeavesIdle ==
    [][ ( /\ call'.op = "startServer"
          /\ Has(log', "emit", "processStarted")
          /\ call'.ret = FALSE )
        => /\ Has(log', "emit", "processError")
           /\ ~m_serverRunning'
           /\ pstate' = "NotRunning"
           /\ alive' = {} ]_vars

\* C15: isToolAvailable() returns true exactly when the probe process started
\* within the start wait, ended within the execution wait and ended with exit
\* code 0; in every case it emits no event and changes nothing of the
\* supervisor.
C15_ProbeIsPureBoolean ==
    [][ (call'.op = "isNetterAvailable")
        => /\ call'.ret = (call'.out = << "ok", "normal0" >>)
           /\ log' = << >>
           /\ UNCHANGED machine ]_vars

\* C15 witness: a probe that found the tool while a server was running.
C15_Witness ==
    /\ call.op = "isNetterAvailable"
    /\ call.ret = TRUE
    /\ m_serverRunning
    /\ pgen \in alive

\* C16 (as claimed): a run() whose process has not ended within the execution
\* timeout reports the timeout and has force-killed the process: the process
\* is not alive when run() returns.
C16_RunTimeoutKillsProcess ==
    ( /\ call.op = "parsePath"
      /\ \E i \in 1..Len(log) :
             /\ IsEmit(log[i], "processError")
             /\ log[i][4] = "Netter CLI process timed out" )
    => /\ call.ret = FALSE
       /\ pgen \notin alive

\* C17 (as claimed): a run() invoked while a server process is alive, Starting
\* or Running, leaves that process alone: it sends it no signal, the process
\* stays alive and attached, isRunning() and the endpoint keep their values and
\* no ServerStopped is emitted.
C17_RunLeavesServerAlone ==
    [][ ( /\ call'.op = "parsePath"
          /\ pgen \in alive
          /\ IsStarting \/ IsRunning )
        => /\ ~HasKind(log', "signal")
           /\ pgen \in alive'
           /\ ~Has(log', "emit", "serverStopped")
           /\ UNCHANGED << m_serverRunning, m_serverHostPort >> ]_vars

\* C18 (as claimed): what the process of a run() writes is not classified: a
\* run() that spawned its process emits for it no OutputChunk, ServerReady,
\* ServerError or ServerStopped, does not turn isRunning() on, and, when it
\* succeeds, returns the stdout the process wrote (every burst the process
\* writes has stdout in it).
C18_RunOutputBypassesClassifier ==
    [][ (call'.op = "parsePath" /\ HasKind(log', "spawn"))
        => /\ \A i \in 1..Len(log') :
                  (log'[i][1] = "emit" /\ log'[i][3] = pgen')
                      => log'[i][2] \in {"processStarted", "processError"}
           /\ m_serverRunning' => m_serverRunning
           /\ (call'.ret /\ nwrites' > 0) => call'.out # << >> ]_vars

\* C19 (as claimed): when a process is launched in the place of an earlier one,
\* the ServerStopped of the earlier process has been emitted before the
\* ProcessLaunched of the new one, however the earlier one ended.
C19_ServerStoppedBeforeNextLaunch ==
    [][ (gen' > gen /\ pgen > 0)
        => \/ stopped >= 1
           \/ \E j \in 1..Len(log') :
                  /\ IsEmit(log'[j], "processStarted")
                  /\ \E i \in 1..(j - 1) :
                         IsEmit(log'[i], "serverStopped") /\ log'[i][3] = pgen ]_vars

\* The texts of the OutputChunk events of an operation, in emission order.
OutputTexts(l) ==
    LET e == SelectSeq(l, LAMBDA x : IsEmit(x, "outputReceived"))
    IN  [i \in 1..Len(e) |-> e[i][4]]

IsPrefix(p, q) == Len(p) <= Len(q) /\ SubSeq(q, 1, Len(p)) = p

\* What a step forwards of a channel: the text of all the chunks that waited
\* in it, in the order they were written, when the step has read the channel.
Forwarded(pipe, pipeAfter) ==
    IF pipe # << >> /\ pipeAfter = << >> THEN << Flatten(pipe) >> ELSE << >>

\* C20: the chunks of each stream are forwarded in the order they were read,
\* each exactly once: a step that reads a channel emits the text of all its
\* waiting chunks, in order, as one OutputChunk of the attached process; a
\* step emits no other OutputChunk; and no chunk leaves a channel unread.
C20_OutputChunksInOrderOnce ==
    [][ /\ OutputTexts(log') = Forwarded(outPipe, outPipe') \o Forwarded(errPipe, errPipe')
        /\ \A i \in 1..Len(log') : IsEmit(log'[i], "outputReceived") => log'[i][3] = pgen
        /\ outPipe' = << >> \/ IsPrefix(outPipe, outPipe')
        /\ errPipe' = << >> \/ IsPrefix(errPipe, errPipe') ]_vars

\* C20 witness: the end of a process at which two stdout chunks written one
\* after the other were read and forwarded in that order.
C20_Witness ==
    /\ call.op = "processDied"
    /\ OutputTexts(log) = << ChunkText("half1") \o ChunkText("half2") >>
    /\ outPipe = << >>

\* C21: when the supervisor is torn down, whatever the state of its process
\* (Starting, Running, signalled, already ended), no child process is alive
\* once the teardown is complete.
C21_NoProcessOutlivesSupervisor ==
    Destroyed => (alive = {} /\ pstate = "NotRunning")

\* C21 witness: a teardown in Starting, where stopServer does nothing and the
\* process does not end in the 3 s wait: the handle's destructor killed it.
C21_Witness ==
    /\ Destroyed
    /\ ~Has(log, "signal", "terminate")
    /\ Has(log, "signal", "kill")
    /\ Has(log, "exit", "crash")
    /\ alive = {}

\* The lifecycle state as the claims define it from the variables of the
\* supervisor: Running once readiness was seen, Starting while a process is
\* alive and readiness was not seen, Idle otherwise.
Lifecycle ==
    IF m_serverRunning THEN "Running"
    ELSE IF pgen \in alive THEN "Starting"
    ELSE "Idle"

\* C22 (as claimed): the lifecycle state never goes from Running back to
\* Starting (the same process still alive, isRunning() false) and never from
\* Idle directly to Running.
C22_OnlyLifecycleEdges ==
    [][ /\ ~(Lifecycle = "Running" /\ Lifecycle' = "Starting" /\ pgen' = pgen)
        /\ ~(Lifecycle = "Idle" /\ Lifecycle' = "Running") ]_vars

\* C23 (as claimed): while stop() or restart() is blocked in its graceful-exit
\* wait, no callback makes a lifecycle transition underneath it: the only
\* ServerStopped of the stop is the one stop() itself emits after the wait, as
\* its last step, and no ServerReady is emitted during the wait.
C23_NoTransitionUnderneathStop ==
    [][ (call'.op \in {"stopServer", "restartServer"} /\ m_serverRunning)
        => \A i \in 1..Len(log') :
               /\ ~IsEmit(log'[i], "serverStarted")
               /\ IsEmit(log'[i], "serverStopped")
                    => \A j \in 1..(i - 1) : ~IsEmit(log'[j], "serverStopped") ]_vars

\* C24 (as claimed): a readiness marker read from a process that the
\* supervisor has already stopped (ServerStopped emitted for it, isRunning()
\* false: the state is Idle, not Starting) does not turn isRunning() on and
\* emits no ServerReady.
C24_MarkerIgnoredOutsideStarting ==
    [][ ( /\ call'.op \in {"readyReadStandardOutput", "processDied"}
          /\ ~m_serverRunning
          /\ stopped >= 1
          /\ hasMatch(Flatten(outPipe)) )
        => /\ ~Has(log', "emit", "serverStarted")
           /\ ~m_serverRunning' ]_vars

\* C25: a start() that is accepted while the handle still holds a process
\* first asks that process to terminate, kills it only after the terminate
\* request, and goes on (ProcessLaunched, spawn) only after the process has
\* ended: the earlier process is not alive when the new one is spawned.
C25_StaleProcessEndedBeforeSpawn ==
    [][ ( /\ call'.op = "startServer"
          /\ pstate # "NotRunning"
          /\ Has(log', "emit", "processStarted") )
        => /\ log'[1] = << "signal", "terminate", pgen, << >> >>
           /\ Before(log', "signal", "terminate", "signal", "kill")
           /\ \A j \in 1..Len(log') :
                  (IsEmit(log'[j], "processStarted") \/ log'[j][1] = "spawn")
                      => \E i \in 1..(j - 1) : log'[i][1] = "exit" /\ log'[i][3] = pgen
           /\ pgen \notin alive'
           /\ alive' \subseteq {pgen'} ]_vars

\* C25 witness: a start() that found a live process which did not end on the
\* terminate request, killed it and spawned the next one.
C25_Witness ==
    /\ call.op = "startServer"
    /\ call.ret = TRUE
    /\ Has(log, "signal", "kill")
    /\ Has(log, "exit", "crash")
    /\ HasKind(log, "spawn")
    /\ alive = {pgen}

\* The log of an operation that did nothing but report a missing input file.
MissingFileLog == << << "emit", "processError", pgen, "Input file does not exist" >> >>

\* C26: start(path) on a supervisor that is not Running, with a path that names
\* no existing file, returns false with exactly one ProcessError and nothing
\* else: no ProcessLaunched, no spawn, no signal to a process in the handle, no
\* change of state.  (With no file at all every path is missing; and whenever
\* the missing-file error is reported, nothing else has happened.)
C26_StartWithMissingFile ==
    [][ (call'.op = "startServer" /\ ~m_serverRunning)
        => /\ files = {} => log' = MissingFileLog
           /\ Has(log', "emit", "processError") /\ ~Has(log', "emit", "processStarted")
                => /\ log' = MissingFileLog
                   /\ call'.ret = FALSE
                   /\ UNCHANGED machine ]_vars

\* C26 witness: a start() refused for a missing file while the handle holds a
\* live process, which is left alone.
C26_Witness ==
    /\ call.op = "startServer"
    /\ call.ret = FALSE
    /\ log = MissingFileLog
    /\ pgen \in alive
    /\ ~m_serverRunning
    /\ files # {}

\* C27 (as claimed): ServerReady and ServerStopped alternate: a ServerStopped
\* is emitted only for a spawned process, after a ServerReady of that process,
\* and never more often than ServerReady was; a failed start attempt and a
\* process that ends before readiness produce none.
C27_ReadyAndStoppedAlternate ==
    [][ Has(log', "emit", "serverStopped")
        => /\ \A i \in 1..Len(log') : IsEmit(log'[i], "serverStopped") => log'[i][3] > 0
           /\ stopped' <= ready' ]_vars

\* C28 (as claimed): a ServerStopped is emitted for a process only when that
\* process is no longer alive; so a process for which an operation or a
\* callback emitted ServerStopped is not alive when that step is over.
C28_ServerStoppedMeansProcessEnded ==
    [][ \A i \in 1..Len(log') :
            (IsEmit(log'[i], "serverStopped") /\ log'[i][3] > 0)
                => log'[i][3] \notin alive' ]_vars

\* The last ServerReady or ServerStopped of an operation ("none": neither).
LastLifecycleEmit(l) ==
    LET idx == {i \in 1..Len(l) :
                    IsEmit(l[i], "serverStarted") \/ IsEmit(l[i], "serverStopped")}
    IN  IF idx = {} THEN "none"
        ELSE l[CHOOSE i \in idx : \A j \in idx : j <= i][2]

\* C29 (as claimed): between operations, isRunning() true implies that the
\* child process is alive.
C29_RunningImpliesProcessAlive == m_serverRunning => pgen \in alive

\* C29 (amended): between operations, isRunning() true implies that the handle
\* holds a process whose end it has not been notified of, and that a
\* ServerReady was emitted for that process with no ServerStopped since: a
\* step that leaves isRunning() true either emitted ServerReady last, or found
\* it true and emitted neither.
C29_RunningImpliesProcessHeldAndReady ==
    /\ [](m_serverRunning => (pstate = "Running" /\ pgen > 0 /\ ready >= 1))
    /\ [][ m_serverRunning'
           => \/ LastLifecycleEmit(log') = "serverStarted"
              \/ LastLifecycleEmit(log') = "none" /\ m_serverRunning /\ pgen' = pgen ]_vars

\* C29 witness: isRunning() is true and the process has ended; its end has not
\* been notified yet.
C29_Witness ==
    /\ m_serverRunning
    /\ pgen \notin alive
    /\ exited # "none"
    /\ pstate = "Running"
    /\ ready = 1

\* C30: the supervisor does not stay stuck non-Idle.  Once the process of a
\* running server has ended, isRunning() becomes false (the notification of
\* the end is delivered); when no notification is pending (the handle holds no
\* process) isRunning() is false; and a start() made then, with the files in
\* place, is accepted: it launches the command.
C30_NeverStuckNonIdle ==
    /\ (m_serverRunning /\ pgen \notin alive) ~> ~m_serverRunning
    /\ [](pstate = "NotRunning" => ~m_serverRunning)
    /\ [][ (call'.op = "startServer" /\ pstate = "NotRunning" /\ files = Names)
           => Has(log', "emit", "processStarted") ]_vars

\* C30 witness: a start() accepted after the process of an earlier server that
\* had reported its endpoint was let go of by the handle.
C30_Witness ==
    /\ call.op = "startServer"
    /\ call.ret = TRUE
    /\ log[1] = << "emit", "processStarted", 1, [abs |-> TRUE, name |-> "a"] >>
    /\ pgen = 2
    /\ m_serverHostPort # << >>
    /\ ~m_serverRunning

====
